---- MODULE Spec2Model ----
(***************************************************************************)
(* Model of src/app.py: the activity store of the Mergington High School   *)
(* API and the handlers that read and mutate it.                           *)
(*                                                                         *)
(* Strings that the code inspects character by character (activity names)  *)
(* are sequences of characters; a character is a one-character string, and *)
(* a non-ASCII character is written as its code point ("U+00E9").          *)
(* An optional value (None or a value) is the empty sequence or a          *)
(* one-element sequence.                                                   *)
(***************************************************************************)
EXTENDS Integers, Sequences, FiniteSets, TLC

VARIABLES
    source,      \* activities.json as found at import time
    activities,  \* the module-level dict: activity name -> activity record
    request,     \* the call handled last (sequential specification)
    before,      \* the store as that call found it
    response,    \* the response to it
    calls        \* the calls in flight, one per worker thread (concurrent specification)

vars == <<source, activities, request, before, response, calls>>

----------------------------------------------------------------------------
(* Bounds of the model *)

\* longest participants array in an activities.json the model loads
MaxFileRoster == 3

\* number of worker threads, each handling one call
NumProcs == 2

----------------------------------------------------------------------------
(* Characters *)

AsciiLetters ==
    {"a","b","c","d","e","f","g","h","i","j","k","l","m",
     "n","o","p","q","r","s","t","u","v","w","x","y","z",
     "A","B","C","D","E","F","G","H","I","J","K","L","M",
     "N","O","P","Q","R","S","T","U","V","W","X","Y","Z"}

AsciiDigits == {"0","1","2","3","4","5","6","7","8","9"}

\* U+00E9 is e with acute accent (a letter), U+0663 is ARABIC-INDIC DIGIT THREE
NonAsciiAlnum == {"U+00E9", "U+0663"}

\* U+00A0 is NO-BREAK SPACE
AsciiWhitespace == {" ", "\t", "\n"}
NonAsciiWhitespace == {"U+00A0"}

\* \w as under re.ASCII
IsWordCharAsciiOnly(c) == c \in AsciiLetters \cup AsciiDigits \cup {"_"}

\* \w of a str pattern: Unicode alphanumerics and the underscore
IsWordChar(c) == c \in AsciiLetters \cup AsciiDigits \cup NonAsciiAlnum \cup {"_"}

\* \s of a str pattern: Unicode whitespace
IsSpaceChar(c) == c \in AsciiWhitespace \cup NonAsciiWhitespace

\* the character class [\w\s\-']
InNameClass(c) == IsWordChar(c) \/ IsSpaceChar(c) \/ c = "-" \/ c = "'"

----------------------------------------------------------------------------
(* Activity names *)

ChessClub == <<"C","h","e","s","s"," ","C","l","u","b">>
ProgrammingClass ==
    <<"P","r","o","g","r","a","m","m","i","n","g"," ","C","l","a","s","s">>
GymClass == <<"G","y","m"," ","C","l","a","s","s">>

MinNameLen == 1
MaxNameLen == 100

----------------------------------------------------------------------------
(* Responses *)

Ok(parts) == [status |-> 200, key |-> "message", text |-> parts]
HTTPException(status_code, detail) ==
    [status |-> status_code, key |-> "detail", text |-> <<detail>>]

\* no exception raised so far: the handler goes on
NoError == [status |-> 0, key |-> "", text |-> <<>>]

\* an exception other than HTTPException leaves the handler
Unhandled(exc) == [status |-> 500, key |-> "exception", text |-> <<exc>>]

----------------------------------------------------------------------------
(* validate_activity_name *)

\* 1 <= len(name) <= 100
LengthOk(name) == MinNameLen <= Len(name) /\ Len(name) <= MaxNameLen

\* re.match(r"^[\w\s\-']+$", name)
MatchesNamePattern(name) ==
    /\ Len(name) >= 1
    /\ \A i \in 1..Len(name) : InNameClass(name[i])

validate_activity_name(name) ==
    IF ~LengthOk(name)
    THEN HTTPException(400, "Invalid activity name length")
    ELSE IF ~MatchesNamePattern(name)
    THEN HTTPException(400, "Activity name contains invalid characters")
    ELSE NoError

----------------------------------------------------------------------------
(* Loading the store *)

Michael == "michael@mergington.edu"
Daniel == "daniel@mergington.edu"
New == "new@mergington.edu"

DefaultActivities ==
    (ChessClub :>
        [description |-> "Learn strategies and compete in chess tournaments",
         schedule |-> "Fridays, 3:30 PM - 5:00 PM",
         max_participants |-> 12,
         participants |-> <<Michael, Daniel>>])
    @@
    (ProgrammingClass :>
        [description |-> "Learn programming fundamentals and build software projects",
         schedule |-> "Tuesdays and Thursdays, 3:30 PM - 4:30 PM",
         max_participants |-> 20,
         participants |-> <<"emma@mergington.edu", "sophia@mergington.edu">>])
    @@
    (GymClass :>
        [description |-> "Physical education and sports activities",
         schedule |-> "Mondays, Wednesdays, Fridays, 2:00 PM - 3:00 PM",
         max_participants |-> 30,
         participants |-> <<"john@mergington.edu", "olivia@mergington.edu">>])

EmptyDict == [n \in {} |-> [description |-> ""]]

\* the except branch, had it used the embedded defaults
MalformedFallbackDefaults == DefaultActivities

\* the except branch: activities = {}
MalformedFallback == EmptyDict

\* the import-time load: source.kind is "absent" (no file), "malformed" (the file
\* exists and open or json.load raises) or "json" (parsed into source.content)
LoadActivities(src) ==
    IF src.kind # "absent"
    THEN IF src.kind = "json" THEN src.content ELSE MalformedFallback
    ELSE DefaultActivities

----------------------------------------------------------------------------
(* Optional values, lists and dicts *)

None == <<>>
Some(v) == <<v>>

\* truth value of an optional string: None and "" are false
Truthy(opt) == opt # None /\ opt[1] # ""

\* x in lst
Contains(lst, x) == \E i \in 1..Len(lst) : lst[i] = x

\* lst.insert(0, x)
ListPrepend(lst, x) == <<x>> \o lst

\* lst.append(x)
ListAppend(lst, x) == Append(lst, x)

\* the last occurrence goes instead of the first
ListRemoveLast(lst, x) ==
    LET i == CHOOSE k \in 1..Len(lst) :
                 lst[k] = x /\ \A j \in (k + 1)..Len(lst) : lst[j] # x
    IN SubSeq(lst, 1, i - 1) \o SubSeq(lst, i + 1, Len(lst))

\* lst.remove(x) for x in lst: the first occurrence goes
ListRemove(lst, x) ==
    LET i == CHOOSE k \in 1..Len(lst) :
                 lst[k] = x /\ \A j \in 1..(k - 1) : lst[j] # x
    IN SubSeq(lst, 1, i - 1) \o SubSeq(lst, i + 1, Len(lst))

\* activity.get("participants", [])
GetParticipants(activity) ==
    IF "participants" \in DOMAIN activity THEN activity.participants ELSE <<>>

\* the dict after activity.setdefault("participants", [])
SetDefaultParticipants(activity) ==
    IF "participants" \in DOMAIN activity
    THEN activity
    ELSE activity @@ [participants |-> <<>>]

----------------------------------------------------------------------------
(* signup_for_activity *)

\* the 404 raised as a 400
ActivityNotFoundAs400 == HTTPException(400, "Activity not found")

\* lines 109 and 135
ActivityNotFoundError == HTTPException(404, "Activity not found")

\* the membership test left out
AlreadySignedUpNever(participants, user_email) == FALSE

\* line 117: user_email in participants
AlreadySignedUp(participants, user_email) == Contains(participants, user_email)

\* the query parameter preferred to the body
UserEmailQueryFirst(payload, email) ==
    IF Truthy(email) THEN email
    ELSE IF Truthy(payload) THEN payload
    ELSE None

\* lines 97-102: the body's email when it is there and non-empty, else the query's
UserEmail(payload, email) ==
    IF Truthy(payload) THEN payload
    ELSE IF Truthy(email) THEN email
    ELSE None

\* signup_check with the existence check moved before the email check
signup_check_existence_first(store, activity_name, payload, email) ==
    LET invalid == validate_activity_name(activity_name)
        user_email == UserEmail(payload, email)
        raise(s, r) == [store |-> s, response |-> r, user_email |-> ""]
    IN IF invalid # NoError
       THEN raise(store, invalid)
       ELSE IF activity_name \notin DOMAIN store
       THEN raise(store, ActivityNotFoundError)
       ELSE IF ~Truthy(user_email)
       THEN raise(store, HTTPException(400, "Email is required"))
       ELSE LET withList ==
                    [store EXCEPT ![activity_name] = SetDefaultParticipants(@)]
            IN IF AlreadySignedUp(withList[activity_name].participants, user_email[1])
               THEN raise(withList, HTTPException(400, "Student is already signed up"))
               ELSE [store |-> withList, response |-> NoError,
                     user_email |-> user_email[1]]

\* signup_check with setdefault run before the email check
signup_check_setdefault_early(store, activity_name, payload, email) ==
    LET invalid == validate_activity_name(activity_name)
        user_email == UserEmail(payload, email)
        raise(s, r) == [store |-> s, response |-> r, user_email |-> ""]
    IN IF invalid # NoError
       THEN raise(store, invalid)
       ELSE IF activity_name \notin DOMAIN store
       THEN raise(store, ActivityNotFoundError)
       ELSE LET withList ==
                    [store EXCEPT ![activity_name] = SetDefaultParticipants(@)]
            IN IF ~Truthy(user_email)
               THEN raise(withList, HTTPException(400, "Email is required"))
               ELSE IF AlreadySignedUp(withList[activity_name].participants,
                                       user_email[1])
               THEN raise(withList, HTTPException(400, "Student is already signed up"))
               ELSE [store |-> withList, response |-> NoError,
                     user_email |-> user_email[1]]

\* lines 95-121: every check up to the membership test. The result holds the store
\* (setdefault may have added an empty participants list), the response when a
\* check raised (NoError when none did) and the email the call goes on with.
signup_check(store, activity_name, payload, email) ==
    LET invalid == validate_activity_name(activity_name)
        user_email == UserEmail(payload, email)
        raise(s, r) == [store |-> s, response |-> r, user_email |-> ""]
    IN IF invalid # NoError
       THEN raise(store, invalid)
       ELSE IF ~Truthy(user_email)
       THEN raise(store, HTTPException(400, "Email is required"))
       ELSE IF activity_name \notin DOMAIN store
       THEN raise(store, ActivityNotFoundError)
       ELSE LET withList ==
                    [store EXCEPT ![activity_name] = SetDefaultParticipants(@)]
            IN IF AlreadySignedUp(withList[activity_name].participants, user_email[1])
               THEN raise(withList, HTTPException(400, "Student is already signed up"))
               ELSE [store |-> withList, response |-> NoError,
                     user_email |-> user_email[1]]

\* signup_append with the membership test repeated next to the append
signup_append_rechecked(store, activity_name, user_email) ==
    IF Contains(GetParticipants(store[activity_name]), user_email)
    THEN [store |-> store,
          response |-> HTTPException(400, "Student is already signed up")]
    ELSE [store |-> [store EXCEPT ![activity_name].participants = Append(@, user_email)],
          response |-> Ok(<<"Signed up ", user_email, " for ", activity_name>>)]

\* signup_append refusing a roster that has reached max_participants
signup_append_capped(store, activity_name, user_email) ==
    IF Len(store[activity_name].participants) >= store[activity_name].max_participants
    THEN [store |-> store, response |-> HTTPException(400, "Activity is full")]
    ELSE [store |-> [store EXCEPT ![activity_name].participants = Append(@, user_email)],
          response |-> Ok(<<"Signed up ", user_email, " for ", activity_name>>)]

\* lines 123-125: the append and the confirmation
signup_append(store, activity_name, user_email) ==
    [store |-> [store EXCEPT ![activity_name].participants = ListAppend(@, user_email)],
     response |-> Ok(<<"Signed up ", user_email, " for ", activity_name>>)]

\* the whole handler, run without interruption
signup_for_activity(store, activity_name, payload, email) ==
    LET c == signup_check(store, activity_name, payload, email)
    IN IF c.response # NoError
       THEN [store |-> c.store, response |-> c.response]
       ELSE signup_append(c.store, activity_name, c.user_email)

----------------------------------------------------------------------------
(* unregister_from_activity *)

\* the membership test left out
NotSignedUpNever(participants, email) == FALSE

\* line 143: email not in participants
NotSignedUp(participants, email) == ~Contains(participants, email)

\* lines 131-147: every check up to the membership test
unregister_check(store, activity_name, email) ==
    LET invalid == validate_activity_name(activity_name)
    IN IF invalid # NoError
       THEN invalid
       ELSE IF activity_name \notin DOMAIN store
       THEN ActivityNotFoundError
       ELSE IF NotSignedUp(GetParticipants(store[activity_name]), email)
       THEN HTTPException(400, "Student is not signed up for this activity")
       ELSE NoError

\* unregister_remove deleting an activity whose roster it has emptied
unregister_remove_drops_empty(store, activity_name, email) ==
    IF Contains(GetParticipants(store[activity_name]), email)
    THEN [store |->
              IF Len(store[activity_name].participants) = 1
              THEN [n \in DOMAIN store \ {activity_name} |-> store[n]]
              ELSE [store EXCEPT ![activity_name].participants = ListRemove(@, email)],
          response |-> Ok(<<"Unregistered ", email, " from ", activity_name>>)]
    ELSE [store |-> store, response |-> Unhandled("ValueError")]

\* lines 149-151: list.remove raises ValueError when the email is not in the list
unregister_remove(store, activity_name, email) ==
    IF Contains(GetParticipants(store[activity_name]), email)
    THEN [store |-> [store EXCEPT ![activity_name].participants = ListRemove(@, email)],
          response |-> Ok(<<"Unregistered ", email, " from ", activity_name>>)]
    ELSE [store |-> store, response |-> Unhandled("ValueError")]

\* the whole handler, run without interruption
unregister_from_activity(store, activity_name, email) ==
    LET c == unregister_check(store, activity_name, email)
    IN IF c # NoError
       THEN [store |-> store, response |-> c]
       ELSE unregister_remove(store, activity_name, email)

\* get_activities: the dict itself is the body
get_activities(store) == [status |-> 200, key |-> "activities", text |-> <<store>>]

----------------------------------------------------------------------------
(* Inputs *)

\* a name of n characters
Pad(n) == [i \in 1..n |-> "a"]

ArtClub == <<"A","r","t"," ","C","l","u","b">>
BadName == <<"B","a","d","/","N","a","m","e","!">>

\* the activity names of the calls: two activities of the default store, a well-formed
\* name that is no activity and a malformed name
NameInputs == {ChessClub, ProgrammingClass, ArtClub, BadName}

\* the emails of the calls; "" is the empty string
EmailInputs == {"", Michael, New}

\* the JSON body: absent, or a SignupRequest holding an email
PayloadInputs == {None, Some(""), Some(Michael)}

\* the query parameter of signup: absent, or a string
QueryInputs == {None} \cup {Some(e) : e \in EmailInputs}

\* activities.json: an object with no activity, or with one activity whose
\* participants array is missing or holds up to MaxFileRoster emails
FileRosters == UNION {[1..k -> {Michael, New}] : k \in 0..MaxFileRoster}

FileActivityNoRoster ==
    [description |-> "Chess", schedule |-> "Fridays", max_participants |-> 1]

FileActivities ==
    {FileActivityNoRoster}
    \cup {FileActivityNoRoster @@ [participants |-> r] : r \in FileRosters}

FileContents == {EmptyDict} \cup {ChessClub :> a : a \in FileActivities}

Sources ==
    {[kind |-> "absent", content |-> EmptyDict],
     [kind |-> "malformed", content |-> EmptyDict]}
    \cup {[kind |-> "json", content |-> c] : c \in FileContents}

----------------------------------------------------------------------------
(* The sequential specification: one call at a time, each run to completion *)

NoRequest == [op |-> "none", activity_name |-> <<>>, payload |-> None, email |-> None]

Procs == 1..NumProcs

IdleCall ==
    [pc |-> "idle", op |-> "none", activity_name |-> <<>>, email |-> "",
     response |-> NoError]

Init ==
    /\ source \in Sources
    /\ activities = LoadActivities(source)
    /\ request = NoRequest
    /\ before = activities
    /\ response = NoError
    /\ calls = [p \in Procs |-> IdleCall]

Signup ==
    \E n \in NameInputs, b \in PayloadInputs, e \in QueryInputs :
        LET r == signup_for_activity(activities, n, b, e)
        IN /\ activities' = r.store
           /\ request' = [op |-> "signup", activity_name |-> n, payload |-> b,
                          email |-> e]
           /\ response' = r.response
           /\ before' = activities
           /\ UNCHANGED <<source, calls>>

Unregister ==
    \E n \in NameInputs, e \in EmailInputs :
        LET r == unregister_from_activity(activities, n, e)
        IN /\ activities' = r.store
           /\ request' = [op |-> "unregister", activity_name |-> n, payload |-> None,
                          email |-> Some(e)]
           /\ response' = r.response
           /\ before' = activities
           /\ UNCHANGED <<source, calls>>

GetActivities ==
    /\ request' = [op |-> "list", activity_name |-> <<>>, payload |-> None,
                   email |-> None]
    /\ response' = get_activities(activities)
    /\ before' = activities
    /\ UNCHANGED <<source, activities, calls>>

Next == Signup \/ Unregister \/ GetActivities

Spec == Init /\ [][Next]_vars

----------------------------------------------------------------------------
(* The concurrent specification: the handlers run on worker threads, and a   *)
(* thread may be preempted between a handler's membership test and its list   *)
(* mutation. Each thread handles one call.                                    *)

ConcNames == {ChessClub, ArtClub}
ConcEmails == {Michael, New}

Finish(p, r) == calls' = [calls EXCEPT ![p].pc = "done", ![p].response = r]

SignupEnter(p) ==
    /\ calls[p].pc = "idle"
    /\ \E n \in ConcNames, e \in ConcEmails :
        LET c == signup_check(activities, n, None, Some(e))
        IN /\ activities' = c.store
           /\ calls' = [calls EXCEPT ![p] =
                  [pc |-> IF c.response = NoError THEN "append" ELSE "done",
                   op |-> "signup", activity_name |-> n, email |-> e,
                   response |-> c.response]]
    /\ UNCHANGED <<source, request, before, response>>

SignupAppend(p) ==
    /\ calls[p].pc = "append"
    /\ LET r == signup_append(activities, calls[p].activity_name, calls[p].email)
       IN /\ activities' = r.store
          /\ Finish(p, r.response)
    /\ UNCHANGED <<source, request, before, response>>

UnregisterEnter(p) ==
    /\ calls[p].pc = "idle"
    /\ \E n \in ConcNames, e \in ConcEmails :
        LET c == unregister_check(activities, n, e)
        IN calls' = [calls EXCEPT ![p] =
               [pc |-> IF c = NoError THEN "remove" ELSE "done",
                op |-> "unregister", activity_name |-> n, email |-> e,
                response |-> c]]
    /\ UNCHANGED <<source, activities, request, before, response>>

UnregisterRemove(p) ==
    /\ calls[p].pc = "remove"
    /\ LET r == unregister_remove(activities, calls[p].activity_name, calls[p].email)
       IN /\ activities' = r.store
          /\ Finish(p, r.response)
    /\ UNCHANGED <<source, request, before, response>>

NextConc ==
    \E p \in Procs :
        \/ SignupEnter(p)
        \/ SignupAppend(p)
        \/ UnregisterEnter(p)
        \/ UnregisterRemove(p)

SpecConc == Init /\ [][NextConc]_vars

----------------------------------------------------------------------------
(* The specification of validate_activity_name alone, over many names *)

\* longest name built character by character
MaxShortName == 2

NameAlphabet ==
    {"a", "Z", "7", "_", " ", "\t", "-", "'", "/", "!", "U+00E9", "U+0663", "U+00A0"}

ShortNames == UNION {[1..k -> NameAlphabet] : k \in 0..MaxShortName}

\* names around the length limit: all "a", or ending in another character
LongNames ==
    {Pad(n) : n \in (MaxNameLen - 1)..(MaxNameLen + 1)}
    \cup {Pad(n) \o <<c>> : n \in (MaxNameLen - 1)..MaxNameLen, c \in {"/", "U+00E9"}}

ValidateInputs == ShortNames \cup LongNames

InitValidate ==
    /\ source = [kind |-> "absent", content |-> EmptyDict]
    /\ activities = LoadActivities(source)
    /\ request \in {[op |-> "validate", activity_name |-> n, payload |-> None,
                     email |-> None] : n \in ValidateInputs}
    /\ before = activities
    /\ response = NoError
    /\ calls = [p \in Procs |-> IdleCall]

Validate ==
    /\ request.op = "validate"
    /\ request' = [request EXCEPT !.op = "validated"]
    /\ response' = validate_activity_name(request.activity_name)
    /\ UNCHANGED <<source, activities, before, calls>>

SpecValidate == InitValidate /\ [][Validate]_vars

----------------------------------------------------------------------------
(* Vocabulary of the properties *)

\* the error kinds, as responses
IsInvalidName(r) ==
    /\ r.status = 400
    /\ r.key = "detail"
    /\ r.text \in {<<"Invalid activity name length">>,
                   <<"Activity name contains invalid characters">>}
IsMissingEmail(r) ==
    r = [status |-> 400, key |-> "detail", text |-> <<"Email is required">>]
IsActivityNotFound(r) ==
    r = [status |-> 404, key |-> "detail", text |-> <<"Activity not found">>]
IsAlreadySignedUp(r) ==
    r = [status |-> 400, key |-> "detail", text |-> <<"Student is already signed up">>]
IsNotSignedUp(r) ==
    r = [status |-> 400, key |-> "detail",
         text |-> <<"Student is not signed up for this activity">>]
IsSuccess(r) == r.status = 200 /\ r.key = "message"

\* a name of 1 to 100 characters, each a letter or digit of any script, an
\* underscore, whitespace, a hyphen or an apostrophe
ValidName(name) ==
    /\ Len(name) \in 1..100
    /\ \A i \in 1..Len(name) :
           name[i] \in AsciiLetters \cup AsciiDigits \cup NonAsciiAlnum
                       \cup AsciiWhitespace \cup NonAsciiWhitespace \cup {"_", "-", "'"}

\* a name of 1 to 100 characters, each in [A-Za-z0-9_], whitespace, a hyphen or
\* an apostrophe
AsciiValidName(name) ==
    /\ Len(name) \in 1..100
    /\ \A i \in 1..Len(name) :
           name[i] \in AsciiLetters \cup AsciiDigits
                       \cup AsciiWhitespace \cup NonAsciiWhitespace \cup {"_", "-", "'"}

\* the participants of activity n in store s; none when the record has no such entry
Roster(s, n) == IF "participants" \in DOMAIN s[n] THEN s[n].participants ELSE <<>>

Occurs(lst, x) == \E i \in 1..Len(lst) : lst[i] = x

Occurrences(lst, x) == Cardinality({i \in 1..Len(lst) : lst[i] = x})

NoDuplicates(s) ==
    \A n \in DOMAIN s : \A i, j \in 1..Len(Roster(s, n)) :
        Roster(s, n)[i] = Roster(s, n)[j] => i = j

\* the email a signup request supplies: the body's when non-empty, else the
\* query parameter's; "" when neither supplies one
SuppliedEmail(req) ==
    IF req.payload # <<>> /\ req.payload[1] # "" THEN req.payload[1]
    ELSE IF req.email # <<>> THEN req.email[1]
    ELSE ""

\* lst without its element at index i
Without(lst, i) == [k \in 1..(Len(lst) - 1) |-> IF k < i THEN lst[k] ELSE lst[k + 1]]

----------------------------------------------------------------------------
(* Properties *)

\* C1: starting from a store without a repeated email in any participants list,
\* no sequence of signup and unregister calls run one at a time leaves an
\* activity whose participants list holds the same email twice.
C1_NoDuplicates == NoDuplicates(LoadActivities(source)) => NoDuplicates(activities)

\* a signup of an email already on a duplicate-free roster has just been refused
C1_Witness ==
    /\ NoDuplicates(LoadActivities(source))
    /\ request.op = "signup"
    /\ IsAlreadySignedUp(response)
    /\ Len(Roster(activities, request.activity_name)) >= 3

\* C2: signup of a non-empty email e that is not on the roster of an existing,
\* validly named activity A answers "Signed up <e> for <A>" and leaves A's
\* participants equal to the previous sequence with e appended.
C2_SignupAppends ==
    LET A == request.activity_name
        e == SuppliedEmail(request)
    IN (/\ request.op = "signup"
        /\ ValidName(A)
        /\ A \in DOMAIN before
        /\ e # ""
        /\ ~Occurs(Roster(before, A), e))
       => /\ response = [status |-> 200, key |-> "message",
                          text |-> <<"Signed up ", e, " for ", A>>]
          /\ A \in DOMAIN activities
          /\ "participants" \in DOMAIN activities[A]
          /\ Len(activities[A].participants) = Len(Roster(before, A)) + 1
          /\ activities[A].participants[Len(activities[A].participants)] = e
          /\ \A i \in 1..Len(Roster(before, A)) :
                 activities[A].participants[i] = Roster(before, A)[i]

\* a signup has just put New behind three earlier participants
C2_Witness ==
    /\ request.op = "signup"
    /\ IsSuccess(response)
    /\ request.activity_name \in DOMAIN activities
    /\ Len(Roster(activities, request.activity_name)) >= 4
    /\ Roster(activities, request.activity_name)[4] = SuppliedEmail(request)

\* C3: unregister of an email e on the roster of an existing, validly named
\* activity A succeeds and removes the first occurrence of e and nothing else.
C3_UnregisterRemovesFirst ==
    LET A == request.activity_name
        e == request.email[1]
    IN (/\ request.op = "unregister"
        /\ ValidName(A)
        /\ A \in DOMAIN before
        /\ Occurs(Roster(before, A), e))
       => /\ response = [status |-> 200, key |-> "message",
                          text |-> <<"Unregistered ", e, " from ", A>>]
          /\ \E i \in 1..Len(Roster(before, A)) :
                 /\ Roster(before, A)[i] = e
                 /\ \A j \in 1..(i - 1) : Roster(before, A)[j] # e
                 /\ Roster(activities, A) = Without(Roster(before, A), i)

\* an unregister has just removed the first of two occurrences that had another
\* email between them
C3_Witness ==
    /\ request.op = "unregister"
    /\ IsSuccess(response)
    /\ source.kind = "json"
    /\ ChessClub \in DOMAIN source.content
    /\ Roster(source.content, ChessClub) = <<Michael, New, Michael>>
    /\ Roster(activities, ChessClub) = <<New, Michael>>

\* C4: signup of an email that is already on the target activity's roster fails
\* with AlreadySignedUp (400) and leaves the whole store as it was.
C4_DuplicateSignupRefused ==
    LET A == request.activity_name
        e == SuppliedEmail(request)
    IN (/\ request.op = "signup"
        /\ ValidName(A)
        /\ A \in DOMAIN before
        /\ e # ""
        /\ Occurs(Roster(before, A), e))
       => /\ IsAlreadySignedUp(response)
          /\ response.status = 400
          /\ activities = before

\* a signup of Michael for the default Chess Club, whose roster starts with Michael,
\* has just been refused
C4_Witness ==
    /\ request.op = "signup"
    /\ request.activity_name = ChessClub
    /\ SuppliedEmail(request) = Michael
    /\ IsAlreadySignedUp(response)
    /\ source.kind = "absent"
    /\ Roster(activities, ChessClub)[1] = Michael

\* C5: unregister of an email that is not on the roster of the existing target
\* activity fails with NotSignedUp (400) and leaves the whole store as it was,
\* also when the activity record has no participants entry.
C5_AbsentUnregisterRefused ==
    LET A == request.activity_name
        e == request.email[1]
    IN (/\ request.op = "unregister"
        /\ ValidName(A)
        /\ A \in DOMAIN before
        /\ ~Occurs(Roster(before, A), e))
       => /\ IsNotSignedUp(response)
          /\ response.status = 400
          /\ activities = before

\* an unregister on an activity record without a participants entry has just been
\* refused, and the record still has none
C5_Witness ==
    /\ request.op = "unregister"
    /\ IsNotSignedUp(response)
    /\ request.activity_name \in DOMAIN activities
    /\ "participants" \notin DOMAIN activities[request.activity_name]

\* C6: for a well-formed activity name that is no key of the store, signup (with a
\* non-empty email) and unregister both fail with ActivityNotFound (404), create
\* no entry for the name and leave the store as it was.
C6_UnknownActivity ==
    LET A == request.activity_name
    IN (/\ request.op \in {"signup", "unregister"}
        /\ ValidName(A)
        /\ A \notin DOMAIN before
        /\ request.op = "signup" => SuppliedEmail(request) # "")
       => /\ IsActivityNotFound(response)
          /\ response.status = 404
          /\ A \notin DOMAIN activities
          /\ activities = before

\* a signup of New for Art Club, which is no activity, has just been refused
C6_Witness ==
    /\ request.op = "signup"
    /\ request.activity_name = ArtClub
    /\ SuppliedEmail(request) = New
    /\ IsActivityNotFound(response)
    /\ ArtClub \notin DOMAIN activities

\* C7: with the membership test and the append as separate unlocked steps, a
\* signup call that has passed the test appends and answers success whatever
\* happened to the roster in between: the email occurs once more than before,
\* so of two calls for the same activity and email that both passed the test
\* before either appended, both succeed and the roster holds the email twice.
C7_AppendWithoutRecheck ==
    [][ \A p \in Procs :
          (calls[p].pc = "append" /\ calls'[p].pc = "done")
          => LET A == calls[p].activity_name
                 e == calls[p].email
             IN /\ calls'[p].response = [status |-> 200, key |-> "message",
                                         text |-> <<"Signed up ", e, " for ", A>>]
                /\ Occurrences(Roster(activities', A), e)
                       = Occurrences(Roster(activities, A), e) + 1
      ]_vars

\* two signup calls for the same activity and the same email, which the loaded
\* roster did not hold, have both returned success and the roster holds it twice
C7_Witness ==
    \E p, q \in Procs :
        /\ p # q
        /\ calls[p].pc = "done" /\ calls[q].pc = "done"
        /\ calls[p].op = "signup" /\ calls[q].op = "signup"
        /\ calls[p].activity_name = ChessClub /\ calls[q].activity_name = ChessClub
        /\ calls[p].email = New /\ calls[q].email = New
        /\ IsSuccess(calls[p].response) /\ IsSuccess(calls[q].response)
        /\ source.kind = "absent"
        /\ Roster(activities, ChessClub) = <<Michael, Daniel, New, New>>

\* C8 as stated: the store starts as the default set when the source is absent and
\* when it is unreadable or malformed, and as the source's content otherwise.
C8_DefaultsOnAnyFailure ==
    request = NoRequest =>
        activities = IF source.kind = "json" THEN source.content ELSE DefaultActivities

\* C8 as amended: the store starts as the default set when the source is absent,
\* as the empty mapping when the source is there but unreadable or malformed, and
\* as the source's content when it is read and parsed.
C8_StartupStore ==
    request = NoRequest =>
        /\ source.kind = "absent" =>
              /\ activities = DefaultActivities
              /\ DOMAIN activities = {ChessClub, ProgrammingClass, GymClass}
              /\ activities[ChessClub].participants = <<Michael, Daniel>>
        /\ source.kind = "malformed" => DOMAIN activities = {}
        /\ source.kind = "json" => activities = source.content

\* the store just loaded from a malformed source
C8_Witness ==
    /\ request = NoRequest
    /\ source.kind = "malformed"
    /\ Cardinality(DOMAIN activities) = 0

\* C9 as stated: a name is accepted exactly when it has 1 to 100 characters, each in
\* [A-Za-z0-9_], whitespace, a hyphen or an apostrophe; every other name fails
\* with InvalidName (400).
C9_AsciiNamesOnly ==
    request.op = "validated" =>
        /\ AsciiValidName(request.activity_name) <=> response = NoError
        /\ ~AsciiValidName(request.activity_name) <=> IsInvalidName(response)

\* C9 as amended: a name is accepted exactly when it has 1 to 100 characters, each
\* a letter or digit of any script, an underscore, whitespace, a hyphen or an
\* apostrophe; every other name fails with InvalidName (400).
C9_ValidNames ==
    request.op = "validated" =>
        /\ ValidName(request.activity_name) <=> response = NoError
        /\ ~ValidName(request.activity_name) <=> IsInvalidName(response)
        /\ IsInvalidName(response) => response.status = 400

\* a name with a non-ASCII letter has just been accepted
C9_Witness ==
    /\ request.op = "validated"
    /\ request.activity_name = <<"a", "U+00E9">>
    /\ response = NoError

\* C10: a request that fails several checks gets the error of the first failing
\* check: for signup name validity, email presence, activity existence, duplicate
\* membership; for unregister name validity, activity existence, membership.
C10_FirstFailingCheck ==
    LET A == request.activity_name
    IN /\ request.op = "signup" =>
            LET e == SuppliedEmail(request)
            IN IF ~ValidName(A) THEN IsInvalidName(response)
               ELSE IF e = "" THEN IsMissingEmail(response)
               ELSE IF A \notin DOMAIN before THEN IsActivityNotFound(response)
               ELSE IF Occurs(Roster(before, A), e)
                    THEN IsAlreadySignedUp(response)
               ELSE IsSuccess(response)
       /\ request.op = "unregister" =>
            LET e == request.email[1]
            IN IF ~ValidName(A) THEN IsInvalidName(response)
               ELSE IF A \notin DOMAIN before THEN IsActivityNotFound(response)
               ELSE IF ~Occurs(Roster(before, A), e)
                    THEN IsNotSignedUp(response)
               ELSE IsSuccess(response)

\* a signup without an email for Art Club, which is no activity, has just been
\* answered "Email is required"
C10_Witness ==
    /\ request.op = "signup"
    /\ request.activity_name = ArtClub
    /\ ArtClub \notin DOMAIN activities
    /\ SuppliedEmail(request) = ""
    /\ IsMissingEmail(response)

\* C11: the email signup checks, appends and names in its answer is the body's
\* whenever the body holds a non-empty email, whatever the query parameter; the
\* query parameter's only when the body is absent or its email empty; with no
\* non-empty email in either the call fails with MissingEmail (400) and the store
\* is unchanged.
C11_BodyEmailFirst ==
    LET A == request.activity_name
        body == request.payload
        query == request.email
        bodyGiven == body # <<>> /\ body[1] # ""
        queryGiven == query # <<>> /\ query[1] # ""
        Used(e) ==
            /\ ~IsMissingEmail(response)
            /\ A \in DOMAIN before =>
                  IF Occurs(Roster(before, A), e)
                  THEN IsAlreadySignedUp(response) /\ activities = before
                  ELSE /\ response = [status |-> 200, key |-> "message",
                                      text |-> <<"Signed up ", e, " for ", A>>]
                       /\ Roster(activities, A) = Roster(before, A) \o <<e>>
    IN (request.op = "signup" /\ ValidName(A))
       => /\ bodyGiven => Used(body[1])
          /\ (~bodyGiven /\ queryGiven) => Used(query[1])
          /\ (~bodyGiven /\ ~queryGiven) =>
                /\ IsMissingEmail(response)
                /\ response.status = 400
                /\ activities = before

\* a signup with Michael in the body and New in the query parameter has just
\* signed up Michael, and New is not on the roster
C11_Witness ==
    /\ request.op = "signup"
    /\ request.payload = <<Michael>>
    /\ request.email = <<New>>
    /\ response = [status |-> 200, key |-> "message",
                   text |-> <<"Signed up ", Michael, " for ", request.activity_name>>]
    /\ ~Occurs(Roster(activities, request.activity_name), New)
    /\ Occurs(Roster(activities, request.activity_name), Michael)

\* C12: capacity is not enforced: signup of a new non-empty email for an existing
\* activity whose roster already has max_participants entries or more succeeds
\* and appends it, so rosters longer than max_participants are reached.
C12_NoCapacityCheck ==
    LET A == request.activity_name
        e == SuppliedEmail(request)
    IN (/\ request.op = "signup"
        /\ ValidName(A)
        /\ A \in DOMAIN before
        /\ e # ""
        /\ ~Occurs(Roster(before, A), e)
        /\ Len(Roster(before, A)) >= before[A].max_participants)
       => /\ IsSuccess(response)
          /\ Roster(activities, A) = Roster(before, A) \o <<e>>
          /\ Len(Roster(activities, A)) > activities[A].max_participants

\* an activity loaded with an empty roster and max_participants 1 holds two
\* participants after two signups
C12_Witness ==
    /\ source.kind = "json"
    /\ ChessClub \in DOMAIN source.content
    /\ "participants" \in DOMAIN source.content[ChessClub]
    /\ source.content[ChessClub].participants = <<>>
    /\ request.op = "signup"
    /\ IsSuccess(response)
    /\ Len(Roster(before, ChessClub)) = activities[ChessClub].max_participants
    /\ Len(Roster(activities, ChessClub)) = 2
    /\ activities[ChessClub].max_participants = 1

\* C13: a signup or unregister call that fails leaves the store unchanged, and
\* the same call issued again right after it fails with the same error and again
\* leaves the store unchanged.
C13_FailureIdempotent ==
    [][ /\ (request'.op \in {"signup", "unregister"} /\ response'.status # 200)
           => activities' = activities
        /\ (/\ request' = request
            /\ request.op \in {"signup", "unregister"}
            /\ response.status # 200)
           => /\ response' = response
              /\ activities' = activities
      ]_vars

\* a signup without an email for an activity record that has no participants
\* entry has just failed, and the record still has none
C13_Witness ==
    /\ request.op = "signup"
    /\ request.activity_name \in DOMAIN activities
    /\ "participants" \notin DOMAIN activities[request.activity_name]
    /\ IsMissingEmail(response)
    /\ before = activities

\* C14: under any interleaving of concurrent signup and unregister calls, with the
\* membership test and the list mutation as separate unlocked steps, every call
\* ends in success or in one of InvalidName, MissingEmail, ActivityNotFound,
\* AlreadySignedUp, NotSignedUp; two concurrent unregister calls for the same
\* activity and the same present email never end in another failure.
C14_OnlyDocumentedErrors ==
    \A p \in Procs :
        calls[p].pc = "done" =>
            \/ IsSuccess(calls[p].response)
            \/ IsInvalidName(calls[p].response)
            \/ IsMissingEmail(calls[p].response)
            \/ IsActivityNotFound(calls[p].response)
            \/ IsAlreadySignedUp(calls[p].response)
            \/ IsNotSignedUp(calls[p].response)

\* C15: the activity names of the store and every activity's description,
\* schedule and max_participants are in every reachable state those of the store
\* as loaded; no signup, unregister or list call adds or deletes an activity or
\* changes its metadata, and a call on one activity leaves the records of all
\* the others as they were.
C15_Frame ==
    LET loaded == LoadActivities(source)
    IN /\ DOMAIN activities = DOMAIN loaded
       /\ \A n \in DOMAIN loaded :
              /\ activities[n].description = loaded[n].description
              /\ activities[n].schedule = loaded[n].schedule
              /\ activities[n].max_participants = loaded[n].max_participants
       /\ DOMAIN before = DOMAIN activities
       /\ request.op \in {"signup", "unregister"} =>
              \A n \in DOMAIN activities \ {request.activity_name} :
                  activities[n] = before[n]
       /\ request.op = "list" => activities = before

\* a signup has just put New on the default Chess Club roster and the two other
\* default activities are as loaded
C15_Witness ==
    /\ source.kind = "absent"
    /\ request.op = "signup"
    /\ request.activity_name = ChessClub
    /\ IsSuccess(response)
    /\ Roster(activities, ChessClub) = <<Michael, Daniel, New>>
    /\ activities[ProgrammingClass] = DefaultActivities[ProgrammingClass]
    /\ activities[GymClass] = DefaultActivities[GymClass]

\* C16: from a store loaded without a repeated email, a successful signup(A, e)
\* followed at once by unregister(A, e) succeeds and leaves A's participants the
\* sequence they were before the signup; a successful unregister(A, e) followed
\* at once by signup(A, e) succeeds and leaves the earlier sequence with e moved
\* to the end, which is the earlier sequence only if e was its last entry.
C16_RoundTrip ==
    [][ LET A == request.activity_name
            old == Roster(before, A)
            new == Roster(activities', A)
        IN (/\ IsSuccess(response)
            /\ request.op \in {"signup", "unregister"}
            /\ request'.activity_name = A
            /\ NoDuplicates(LoadActivities(source)))
           => /\ (/\ request.op = "signup"
                  /\ request'.op = "unregister"
                  /\ request'.email[1] = SuppliedEmail(request))
                 => /\ IsSuccess(response')
                    /\ new = old
              /\ (/\ request.op = "unregister"
                  /\ request'.op = "signup"
                  /\ SuppliedEmail(request') = request.email[1])
                 => /\ IsSuccess(response')
                    /\ \E i \in 1..Len(old) :
                           /\ old[i] = request.email[1]
                           /\ new = Without(old, i) \o <<old[i]>>
                           /\ new = old <=> i = Len(old)
      ]_vars

\* an unregister of New has just undone the signup that had put New behind the
\* two participants of the default Chess Club
C16_Witness ==
    /\ source.kind = "absent"
    /\ request.op = "unregister"
    /\ request.activity_name = ChessClub
    /\ request.email = <<New>>
    /\ IsSuccess(response)
    /\ Roster(before, ChessClub) = <<Michael, Daniel, New>>
    /\ Roster(activities, ChessClub) = <<Michael, Daniel>>

====
